---- MODULE Spec2Model ----
(***************************************************************************)
(* Water intake tracker: the Streamlit dashboard script (src/dashboard.py) *)
(* as a state machine.  Streamlit reruns the script top to bottom on every *)
(* interaction; a run is a process whose position pc moves from one call   *)
(* of the store or read of the clock to the next: get_agent, the sidebar   *)
(* form handler, then the main content.  The script holds no lock, so the  *)
(* clock can advance and other browser sessions can append to the same     *)
(* table between any two steps of a run.  The page is what the last        *)
(* completed run put on the screen.  The event store (src.database)        *)
(* and the feedback agent (src.agent) are collaborators whose code is not  *)
(* part of the sources; they are modelled from the written specification   *)
(* and every call to them has an outcome chosen by the environment.        *)
(*                                                                         *)
(* Dates are day ordinals (what pd.to_datetime yields) and '%Y-%m-%d'      *)
(* strings are triples <<year, month, day>>; day 0 is Saturday 2023-12-30, *)
(* so the modelled days cross a month and a year boundary.  A mean is the  *)
(* exact rational [sum, n]; n = 0 is NaN (no data).  A fraction is the     *)
(* exact rational [num, den].                                              *)
(***************************************************************************)
EXTENDS Integers, Sequences, FiniteSets, TLC

\* ---------------------------------------------------------------- bounds
MaxEvents == 2      \* log actions per behaviour, of all sessions together
MaxSlot == 2        \* the clock runs over the half-days 0..MaxSlot, from 08:00 of day 0

\* ------------------------------------------------------- program constants
daily_goal == 2000
WeeklyWindow == 7       \* get_daily_summary(user_id, days=7)
DateRangeDays == 7      \* timedelta(days=7) of the history tab's default range

Users == {"user123"}
Amounts == {0, 1200}     \* what this page's form submits
OtherAmounts == {800}    \* what the forms of other sessions submit
DayNames == <<"Monday", "Tuesday", "Wednesday", "Thursday", "Friday",
              "Saturday", "Sunday">>
DayNameSet == {DayNames[i] : i \in 1..7}

VARIABLES
    store,          \* rows of table water_intake, in insertion order
    zone,           \* half-days the store's timestamps are ahead of the local clock
    now,            \* datetime.now(), the local clock
    agent_cached,   \* st.cache_resource holds a WaterIntakeAgent
    pc,             \* position of the script run in progress, "idle" when none
    run,            \* what the run in progress has read and been given so far
    ui,             \* what the last completed script run put on the page
    log_actions,    \* "Log Intake" submissions so far, of all sessions
    append_calls,   \* log_intake calls issued so far, by all sessions
    core            \* last direct call of an aggregation function and its result

vars == <<store, zone, now, agent_cached, pc, run, ui, log_actions, append_calls, core>>

\* ------------------------------------------------------------ time, dates
\* datetime.strftime('%Y-%m-%d') of a day ordinal, for 2023-12-01..2024-01-31
strftime(d) == IF d <= 1 THEN <<2023, 12, 30 + d>> ELSE <<2024, 1, d - 1>>

\* pd.to_datetime of a '%Y-%m-%d' string
to_datetime(s) == IF s[1] = 2023 THEN s[3] - 30 ELSE s[3] + 1

\* Series.dt.day_name(); day 0 is a Saturday
day_name(d) == DayNames[((d + 5) % 7) + 1]

\* --------------------------------------------------------- sums and means
RECURSIVE SumIntake(_)
SumIntake(rows) ==
    IF rows = <<>> THEN 0 ELSE Head(rows).intake_ml + SumIntake(Tail(rows))

NaN == [sum |-> 0, n |-> 0]

RECURSIVE SumAt(_, _)
SumAt(df, S) ==
    IF S = {} THEN 0
    ELSE LET i == CHOOSE x \in S : TRUE
         IN  df[i].intake_ml + SumAt(df, S \ {i})

\* df.groupby(col)['intake_ml'].mean(): one entry per value that occurs in the
\* column col (col[i] is the value of row i), the mean as sum over count
groupby_mean(df, col) ==
    LET keys == {col[i] : i \in DOMAIN df}
        grp(k) == {i \in DOMAIN df : col[i] = k}
    IN  [k \in keys |-> [sum |-> SumAt(df, grp(k)), n |-> Cardinality(grp(k))]]

\* Series.reindex(index): every label of index, NaN where the label is new
reindex(series, index) ==
    [k \in index |-> IF k \in DOMAIN series THEN series[k] ELSE NaN]

\* ------------------------------------------------- event store (src.database)
\* The timestamp of an event is an instant; its text in the table is the
\* instant in the store's own zone, which is the local zone or half a day
\* ahead of it (a table stamped in UTC on a machine at UTC-12:00).
Zones == {0, 1}
Instant(t) ==
    IF zone = 0 THEN t
    ELSE IF t.hour = 8 THEN [day |-> t.day, hour |-> 20]
    ELSE [day |-> t.day + 1, hour |-> 8]

\* log_intake(user_id, intake_ml): one append; calendarDate is the local date
\* of the call, timestamp its instant.  out: "ok" (stored, True), "false"
\* (not stored, False), "raise".
log_intake(st, t, user_id, intake_ml, out) ==
    [ success |-> (out = "ok"),
      raised  |-> (out = "raise"),
      store   |-> IF out = "ok"
                  THEN Append(st, [ id        |-> Len(st) + 1,
                                    user_id   |-> user_id,
                                    intake_ml |-> intake_ml,
                                    date      |-> strftime(t.day),
                                    timestamp |-> [date |-> strftime(Instant(t).day),
                                                   hour |-> Instant(t).hour] ])
                  ELSE st ]

\* get_intake(user_id): all rows of the user, or a failure of the store
get_intake(st, user_id, out) ==
    [ raised |-> (out = "raise"),
      rows   |-> IF out = "raise" THEN <<>>
                 ELSE SelectSeq(st, LAMBDA e : e.user_id = user_id) ]

\* get_daily_summary(user_id, days): one row per calendar date of the window
\* of `days` dates ending at and including today, oldest first, zero-filled.
get_daily_summary(st, t, user_id, days, out) ==
    IF days <= 0
    THEN [raised |-> TRUE, error |-> "InvalidArgument", rows |-> <<>>]
    ELSE IF out = "raise"
    THEN [raised |-> TRUE, error |-> "PersistenceError", rows |-> <<>>]
    ELSE [ raised |-> FALSE, error |-> "",
           rows |-> [i \in 1..days |->
               LET d == strftime(t.day - days + i)
                   on == SelectSeq(st, LAMBDA e : e.user_id = user_id /\ e.date = d)
               IN  [date |-> d, total_intake |-> SumIntake(on),
                    intake_count |-> Len(on)]] ]

\* ---------------------------------------------------------- get_todays_total
get_todays_total_alltime(st, t, user_id, out) ==
    SumIntake(get_intake(st, user_id, out).rows)

get_todays_total(st, t, user_id, out) ==
    LET today_str == strftime(t.day)
        history == get_intake(st, user_id, out)
        date_str(e) == strftime(to_datetime(e.date))
    IN  IF history.raised THEN 0            \* except Exception: return 0
        ELSE IF history.rows = <<>> THEN 0  \* if not history: return 0
        ELSE SumIntake(SelectSeq(history.rows,
                                 LAMBDA e : date_str(e) = today_str))

\* ------------------------------------------------------------- main content
\* pd.DataFrame(history, columns=[...]) with 'date' parsed and 'time' = '%H:%M'
history_df(rows) ==
    [i \in DOMAIN rows |->
        [ id |-> rows[i].id, intake_ml |-> rows[i].intake_ml,
          date |-> to_datetime(rows[i].date),
          timestamp |-> rows[i].timestamp,
          time |-> <<rows[i].timestamp.hour, 0>> ]]

today_df_from_timestamp(hdf, t) ==
    LET today_str == strftime(t.day)
    IN  SelectSeq(hdf, LAMBDA r : r.timestamp.date = today_str)

\* history_df[history_df['date'].dt.strftime('%Y-%m-%d') == today_str]
today_df(hdf, t) ==
    LET today_str == strftime(t.day)
    IN  SelectSeq(hdf, LAMBDA r : strftime(r.date) = today_str)

remaining(today_total, goal) ==
    IF goal - today_total > 0 THEN goal - today_total ELSE 0

progress_unclamped(today_total, goal) == [num |-> today_total, den |-> goal]

\* min(1.0, today_total / daily_goal), for the positive goal of line 183
progress(today_total, goal) ==
    IF today_total >= goal THEN [num |-> 1, den |-> 1]
    ELSE [num |-> today_total, den |-> goal]

weekly_df_nonzero(weekly_summary) ==
    LET kept == SelectSeq(weekly_summary, LAMBDA r : r.intake_count > 0)
    IN  [i \in DOMAIN kept |->
            [ date |-> to_datetime(kept[i].date),
              total_intake |-> kept[i].total_intake,
              intake_count |-> kept[i].intake_count ]]

\* pd.DataFrame(weekly_summary, columns=[...]) with 'date' parsed
weekly_df(weekly_summary) ==
    [i \in DOMAIN weekly_summary |->
        [ date |-> to_datetime(weekly_summary[i].date),
          total_intake |-> weekly_summary[i].total_intake,
          intake_count |-> weekly_summary[i].intake_count ]]

\* The range widget as the browser session holds it: whether the last run put
\* it on the page, the arguments it was built from (they make its identity),
\* and the dates picked in it (<<>>: untouched).
WidgetNone == [shown |-> FALSE, key |-> <<>>, held |-> <<>>]

\* What the widget holds in this run: nothing when it is new or was built from
\* other arguments; a click on a date completes a selection of one date and
\* otherwise starts a new one.
widget_state(widget, key, click, day) ==
    IF ~(widget.shown /\ widget.key = key) THEN <<>>
    ELSE IF click = "none" THEN widget.held
    ELSE IF Len(widget.held) = 1 THEN <<widget.held[1], day>>
    ELSE <<day>>

\* st.date_input(value=(start, end), min_value, max_value): Streamlit raises
\* StreamlitAPIException when the default range leaves [min_value, max_value];
\* it returns the dates picked so far, a 1-tuple after the first click of a
\* range, and the default while untouched
date_input(value, min_value, max_value, held) ==
    [ raised |-> (value[1] < min_value \/ value[2] > max_value),
      value  |-> IF held = <<>> THEN value ELSE held ]

\* history_df['date'].min()
MinDate(hdf) ==
    CHOOSE d \in {hdf[i].date : i \in DOMAIN hdf} :
        \A j \in DOMAIN hdf : d <= hdf[j].date

\* history_df[(date >= date_range[0]) & (date <= date_range[1])]
filtered_df(hdf, date_range) ==
    SelectSeq(hdf, LAMBDA r : r.date >= date_range[1] /\ r.date <= date_range[2])

\* groupby('day_of_week')['intake_ml'].mean().reindex([Monday .. Sunday])
weekly_pattern(hdf) ==
    LET day_of_week == [i \in DOMAIN hdf |-> day_name(hdf[i].date)]
    IN  reindex(groupby_mean(hdf, day_of_week), DayNameSet)

\* groupby('hour')['intake_ml'].mean(), hour parsed back from 'time'
hourly_pattern(hdf) ==
    LET hour == [i \in DOMAIN hdf |-> hdf[i].time[1]]
    IN  groupby_mean(hdf, hour)

\* read_n and sum_n are the numbers of rows the table held when get_intake
\* and get_daily_summary read it; day is the date line 180 took for today,
\* sum_day the date get_daily_summary took for today.
MainBlank ==
    [ errors |-> {}, info |-> FALSE, read_failed |-> FALSE,
      day |-> 0, read_n |-> 0, sum_day |-> 0, sum_n |-> 0,
      totals_shown |-> FALSE, today_total |-> 0, today_ids |-> {},
      remaining |-> 0, progress |-> [num |-> 0, den |-> 1],
      weekly_shown |-> FALSE, weekly_df |-> <<>>,
      history_shown |-> FALSE, history_info |-> FALSE,
      filtered_total |-> 0, filtered_mean |-> NaN,
      range |-> WidgetNone,
      patterns_shown |-> FALSE, weekly_pattern |-> <<>>, hourly_pattern |-> <<>> ]

\* lines 169-306: everything below st.title("Hydration Dashboard").  st is the
\* table when get_intake reads it, st2 the table when get_daily_summary does;
\* t is the clock at line 180, tsum the clock of get_daily_summary, tstart and
\* tend the two clock reads of line 240, tmax the one of line 242; widget is
\* the range widget of the page the user acted on and click what the user did
\* to it.
main_content(st, st2, t, tsum, tstart, tend, tmax, user_id, readOut, sumOut, widget, click) ==
    LET history == get_intake(st, user_id, readOut)
    IN  IF history.raised
        THEN [MainBlank EXCEPT !.errors = {"load_error"}, !.read_failed = TRUE]
        ELSE IF history.rows = <<>>
        THEN [MainBlank EXCEPT !.info = TRUE]
        ELSE
        LET hdf == history_df(history.rows)
            tdf == today_df(hdf, t)
            today_total == SumIntake(tdf)
            weekly_summary == get_daily_summary(st2, tsum, user_id, WeeklyWindow, sumOut)
            default == <<tstart.day - DateRangeDays, tend.day>>
            key == <<default, MinDate(hdf), tmax.day>>
            date_range == date_input(default, MinDate(hdf), tmax.day,
                                     widget_state(widget, key, click, tmax.day))
            fdf == filtered_df(hdf, date_range.value)
            metrics == [MainBlank EXCEPT
                          !.day = t.day,
                          !.read_n = Len(st),
                          !.totals_shown = TRUE,
                          !.today_total = today_total,
                          !.today_ids = {tdf[i].id : i \in DOMAIN tdf},
                          !.remaining = remaining(today_total, daily_goal),
                          !.progress = progress(today_total, daily_goal)]
            overview == [metrics EXCEPT
                          !.sum_day = tsum.day,
                          !.sum_n = Len(st2),
                          !.weekly_shown = TRUE,
                          !.weekly_df = weekly_df(weekly_summary.rows)]
            ranged == [overview EXCEPT
                          !.range = [shown |-> TRUE, key |-> key,
                                     held |-> IF date_range.value = default
                                              THEN <<>> ELSE date_range.value]]
        IN  IF weekly_summary.raised
            THEN [metrics EXCEPT !.errors = {"load_error"}, !.read_failed = TRUE]
            ELSE IF date_range.raised
            THEN [overview EXCEPT !.errors = {"load_error"}]
            ELSE IF Len(date_range.value) < 2      \* date_range[1]: IndexError
            THEN [ranged EXCEPT !.errors = {"load_error"}]
            ELSE [ranged EXCEPT
                    !.history_shown = (fdf # <<>>),
                    !.history_info = (fdf = <<>>),   \* "No entries found ..."
                    !.filtered_total = SumIntake(fdf),
                    !.filtered_mean = IF fdf = <<>> THEN NaN
                                      ELSE [sum |-> SumIntake(fdf), n |-> Len(fdf)],
                    !.patterns_shown = TRUE,
                    !.weekly_pattern = weekly_pattern(hdf),
                    !.hourly_pattern = hourly_pattern(hdf)]

\* ------------------------------------------------------------ sidebar form
\* get_agent under st.cache_resource: a constructed agent is kept for good; a
\* constructor that raises leads to st.error and st.stop()
get_agent(cached, agentOut) ==
    [ stopped |-> ~cached /\ agentOut = "raise",
      cached  |-> cached \/ agentOut = "ok" ]

log_step_retry(st, t, user_id, intake_ml, out) ==
    LET first == log_intake(st, t, user_id, intake_ml, out)
        again == log_intake(st, t, user_id, intake_ml, "ok")
    IN  IF first.success
        THEN [success |-> TRUE, raised |-> FALSE, store |-> first.store, calls |-> 1,
              own_id |-> Len(first.store)]
        ELSE [success |-> again.success, raised |-> FALSE, store |-> again.store,
              calls |-> 2, own_id |-> Len(again.store)]

\* line 131: success = log_intake(user_id, intake_ml), called once
log_step(st, t, user_id, intake_ml, out) ==
    LET r == log_intake(st, t, user_id, intake_ml, out)
    IN  [success |-> r.success, raised |-> r.raised, store |-> r.store, calls |-> 1,
         own_id |-> IF r.success THEN Len(r.store) ELSE 0]

\* read_n: the number of rows the table held when get_todays_total read it
FeedbackNone ==
    [called |-> FALSE, total |-> 0, shown |-> FALSE, read_failed |-> FALSE,
     read_n |-> 0, errors |-> {}]

feedback_step_always(st, t, user_id, success, readOut, analyzeOut) ==
    LET today_total == get_todays_total(st, t, user_id, readOut)
    IN  [ called |-> TRUE, total |-> today_total,
          shown |-> (analyzeOut = "ok"), read_failed |-> (readOut = "raise"),
          read_n |-> Len(st),
          errors |-> IF analyzeOut = "raise" THEN {"feedback"} ELSE {} ]

\* lines 136-151: if success: total = get_todays_total(); agent.analyze_intake(total)
feedback_step(st, t, user_id, success, readOut, analyzeOut) ==
    IF ~success THEN FeedbackNone
    ELSE LET today_total == get_todays_total(st, t, user_id, readOut)
         IN  [ called |-> TRUE, total |-> today_total,
               shown |-> (analyzeOut = "ok"),
               read_failed |-> (readOut = "raise"),
               read_n |-> Len(st),
               errors |-> IF analyzeOut = "raise" THEN {"feedback"} ELSE {} ]

\* own_id: the row this submission stored (0 when it stored none)
SidebarBlank ==
    [ submitted |-> FALSE, intake_ml |-> 0, appended |-> "none", own_id |-> 0,
      success_shown |-> FALSE, log_day |-> 0, read_day |-> 0,
      fb |-> FeedbackNone, errors |-> {} ]

\* lines 125-158: the handler of a submitted form, given the outcome of its
\* log_intake call at time t (own_id: the row it stored), the clock t2 that
\* get_todays_total read at line 87 and the table st it read at line 91.
intake_form(success, raised, own_id, st, t, t2, user_id, intake_ml, appendOut, readOut, analyzeOut) ==
    LET f == IF raised THEN FeedbackNone
             ELSE feedback_step(st, t2, user_id, success, readOut, analyzeOut)
    IN  [ submitted |-> TRUE, intake_ml |-> intake_ml,
          appended |-> appendOut,
          own_id |-> own_id,
          success_shown |-> (~raised /\ success),
          log_day |-> t.day, read_day |-> t2.day,
          fb |-> f,
          errors |-> IF raised THEN {"log_exception"}
                     ELSE IF ~success THEN {"log_failed"}
                     ELSE f.errors ]

\* ------------------------------------------------------------------ the page
\* n_start: the number of rows the table held when the run began
PageBlank ==
    [ ran |-> FALSE, stopped |-> FALSE, form_shown |-> FALSE,
      user_id |-> "user123", errors |-> {}, n_start |-> 0,
      sidebar |-> SidebarBlank, main |-> MainBlank ]

PageStopped ==
    [PageBlank EXCEPT !.ran = TRUE, !.stopped = TRUE, !.errors = {"agent_init"}]

\* day: the date the call took for today; read_n: the number of rows the
\* table held when the call read it
CoreBlank ==
    [ op |-> "none", arg |-> 0, returned |-> FALSE, read_failed |-> FALSE,
      day |-> 0, read_n |-> 0, totalMl |-> 0, rows |-> <<>> ]

Outcomes == {"ok", "raise"}
AppendOutcomes == {"ok", "false", "raise"}

\* The locals of a script run: the interaction that started it, the outcome of
\* each call made so far, each value read from the clock, and the number of
\* rows the table held at each read (the table is append-only, so its first
\* n rows are what a read of n rows returned).
Clock0 == [day |-> 0, hour |-> 8]
RunBlank ==
    [ user_id |-> "user123", submitted |-> FALSE, intake_ml |-> 0,
      click |-> "none", widget |-> WidgetNone, n_start |-> 0,
      appendOut |-> "none", success |-> FALSE, raised |-> FALSE, own_id |-> 0,
      t_log |-> Clock0,                                \* line 131
      t_fb |-> Clock0, fb_n |-> 0,                     \* lines 87, 91
      readOut |-> "ok", analyzeOut |-> "ok",           \* lines 91, 143
      m1 |-> "ok", read_n |-> 0,                       \* line 171
      t_today |-> Clock0,                              \* line 180
      m2 |-> "ok", t_sum |-> Clock0, sum_n |-> 0,      \* line 207
      t_start |-> Clock0, t_end |-> Clock0,            \* line 240
      t_max |-> Clock0 ]                               \* line 242

\* The page a run leaves when it ends, from what it read: st is the table now.
Page(r, st) ==
    [PageBlank EXCEPT
       !.ran = TRUE, !.form_shown = TRUE,
       !.user_id = r.user_id, !.n_start = r.n_start,
       !.sidebar = IF r.submitted
                   THEN intake_form(r.success, r.raised, r.own_id,
                                    SubSeq(st, 1, r.fb_n), r.t_log, r.t_fb,
                                    r.user_id, r.intake_ml,
                                    r.appendOut, r.readOut, r.analyzeOut)
                   ELSE SidebarBlank,
       !.main = main_content(SubSeq(st, 1, r.read_n), SubSeq(st, 1, r.sum_n),
                             r.t_today, r.t_sum, r.t_start, r.t_end, r.t_max,
                             r.user_id, r.m1, r.m2, r.widget, r.click)]

\* water_tracker.db is a file that outlives the process (lines 13-15 report it
\* at start): the table is empty, or holds a row logged a week before day 0.
AgedRow ==
    [ id |-> 1, user_id |-> "user123", intake_ml |-> 800,
      date |-> strftime(0 - DateRangeDays),
      timestamp |-> [date |-> strftime(0 - DateRangeDays), hour |-> 8] ]

Init ==
    /\ store \in {<<>>, <<AgedRow>>}
    /\ zone \in Zones
    /\ now = Clock0
    /\ agent_cached = FALSE
    /\ pc = "idle"
    /\ run = RunBlank
    /\ ui = PageBlank
    /\ log_actions = Len(store)
    /\ append_calls = Len(store)
    /\ core = CoreBlank

\* ------------------------------------------------------------ the environment
\* The clock is read at 08:00 and at 20:00 of each day.
Slot(t) == 2 * t.day + (IF t.hour = 8 THEN 0 ELSE 1)
NextTime(t) ==
    IF Slot(t) >= MaxSlot THEN {}
    ELSE IF t.hour = 8 THEN {[day |-> t.day, hour |-> 20]}
    ELSE {[day |-> t.day + 1, hour |-> 8]}
AgentOutcomes == IF agent_cached THEN {"ok"} ELSE Outcomes
Clicks == {"none", "date"}     \* what the user did to the range widget

\* Time passes, at any point of a run or between runs.
Tick ==
    /\ \E t \in NextTime(now) : now' = t
    /\ UNCHANGED <<zone, store, agent_cached, pc, run, ui, log_actions, append_calls, core>>

\* Another session's "Log Intake", at any point of a run or between runs: its
\* log_intake reads the clock itself; the table grows, this page stays.
OtherSessionLog(user_id, ml) ==
    /\ log_actions < MaxEvents
    /\ store' = log_intake(store, now, user_id, ml, "ok").store
    /\ log_actions' = log_actions + 1
    /\ append_calls' = append_calls + 1
    /\ UNCHANGED <<zone, now, agent_cached, pc, run, ui, core>>

\* The Streamlit process restarts, at any point: st.cache_resource lives in the
\* process and is lost, the run and the page are gone; water_tracker.db is a
\* file and keeps its rows.
Restart ==
    /\ pc # "idle" \/ ui.ran
    /\ agent_cached' = FALSE
    /\ pc' = "idle"
    /\ run' = RunBlank
    /\ ui' = PageBlank
    /\ UNCHANGED <<zone, store, now, log_actions, append_calls, core>>

\* --------------------------------------------------------------- a script run
\* The run ends: its page replaces the old one.
EndRun(r) ==
    /\ ui' = Page(r, store)
    /\ pc' = "idle"
    /\ run' = RunBlank

\* lines 44-52 of a run: agent = get_agent()
StartRun(r, first) ==
    \E agentOut \in AgentOutcomes :
    \E a \in {get_agent(agent_cached, agentOut)} :
        /\ agent_cached' = a.cached
        /\ IF a.stopped
           THEN /\ ui' = [PageStopped EXCEPT !.n_start = Len(store)]
                /\ pc' = "idle"
                /\ run' = RunBlank
           ELSE /\ ui' = PageBlank
                /\ pc' = first
                /\ run' = [r EXCEPT !.widget = ui.main.range, !.n_start = Len(store)]

\* A run of the script without a form submission: the first load, or a click
\* on a date of the range widget when the page shows it.
Rerun(user_id, click) ==
    /\ pc = "idle"
    /\ click # "none" => ui.main.range.shown
    /\ StartRun([RunBlank EXCEPT !.user_id = user_id, !.click = click], "get_intake")
    /\ UNCHANGED <<zone, store, now, log_actions, append_calls, core>>

\* A run of the script triggered by "Log Intake" of the form on the page.
SubmitIntake(user_id, intake_ml) ==
    /\ pc = "idle"
    /\ ui.form_shown
    /\ log_actions < MaxEvents
    /\ StartRun([RunBlank EXCEPT !.user_id = user_id, !.submitted = TRUE,
                                 !.intake_ml = intake_ml], "log")
    /\ log_actions' = log_actions + 1
    /\ UNCHANGED <<zone, store, now, append_calls, core>>

\* line 131: success = log_intake(user_id, intake_ml)
LogIntake ==
    /\ pc = "log"
    /\ \E appendOut \in AppendOutcomes :
       \E l \in {log_step(store, now, run.user_id, run.intake_ml, appendOut)} :
          /\ store' = l.store
          /\ append_calls' = append_calls + l.calls
          /\ run' = [run EXCEPT !.appendOut = appendOut, !.success = l.success,
                                !.raised = l.raised, !.own_id = l.own_id,
                                !.t_log = now, !.t_fb = now]
          /\ pc' = IF ~l.raised /\ l.success THEN "fb_clock" ELSE "get_intake"
    /\ UNCHANGED <<zone, now, agent_cached, ui, log_actions, core>>

\* line 87, inside get_todays_total: today_str = datetime.now()...
FeedbackClock ==
    /\ pc = "fb_clock"
    /\ run' = [run EXCEPT !.t_fb = now]
    /\ pc' = "fb_read"
    /\ UNCHANGED <<zone, store, now, agent_cached, ui, log_actions, append_calls, core>>

\* lines 91-151: history = get_intake(user_id) inside get_todays_total, the
\* sum, then agent.analyze_intake(today_total); neither the table nor the
\* clock is read again before line 171.
FeedbackRead ==
    /\ pc = "fb_read"
    /\ \E readOut \in Outcomes, analyzeOut \in Outcomes :
          run' = [run EXCEPT !.fb_n = Len(store), !.readOut = readOut,
                             !.analyzeOut = analyzeOut]
    /\ pc' = "get_intake"
    /\ UNCHANGED <<zone, store, now, agent_cached, ui, log_actions, append_calls, core>>

\* lines 171-173: history = get_intake(user_id); if history:
GetIntake ==
    /\ pc = "get_intake"
    /\ \E m1 \in Outcomes :
       \E r \in {[run EXCEPT !.m1 = m1, !.read_n = Len(store)]} :
          IF m1 = "raise" \/ get_intake(store, r.user_id, m1).rows = <<>>
          THEN EndRun(r)
          ELSE /\ run' = r
               /\ pc' = "today"
               /\ ui' = ui
    /\ UNCHANGED <<zone, store, now, agent_cached, log_actions, append_calls, core>>

\* line 180: today_str = datetime.now().strftime('%Y-%m-%d')
Today ==
    /\ pc = "today"
    /\ run' = [run EXCEPT !.t_today = now]
    /\ pc' = "summary"
    /\ UNCHANGED <<zone, store, now, agent_cached, ui, log_actions, append_calls, core>>

\* line 207: weekly_summary = get_daily_summary(user_id, days=7)
Summary ==
    /\ pc = "summary"
    /\ \E m2 \in Outcomes :
       \E r \in {[run EXCEPT !.m2 = m2, !.sum_n = Len(store), !.t_sum = now]} :
          IF m2 = "raise"
          THEN EndRun(r)
          ELSE /\ run' = r
               /\ pc' = "range_start"
               /\ ui' = ui
    /\ UNCHANGED <<zone, store, now, agent_cached, log_actions, append_calls, core>>

\* line 240, first read: datetime.now().date() - timedelta(days=7)
RangeStart ==
    /\ pc = "range_start"
    /\ run' = [run EXCEPT !.t_start = now]
    /\ pc' = "range_end"
    /\ UNCHANGED <<zone, store, now, agent_cached, ui, log_actions, append_calls, core>>

\* line 240, second read: datetime.now().date()
RangeEnd ==
    /\ pc = "range_end"
    /\ run' = [run EXCEPT !.t_end = now]
    /\ pc' = "range_max"
    /\ UNCHANGED <<zone, store, now, agent_cached, ui, log_actions, append_calls, core>>

\* lines 242-306: max_value=datetime.now().date(), the widget, the history
\* tab and the trends tab; nothing is read after the widget is built.
RangeMax ==
    /\ pc = "range_max"
    /\ EndRun([run EXCEPT !.t_max = now])
    /\ UNCHANGED <<zone, store, now, agent_cached, log_actions, append_calls, core>>

Next ==
    \/ \E u \in Users, click \in Clicks : Rerun(u, click)
    \/ \E u \in Users, ml \in Amounts : SubmitIntake(u, ml)
    \/ LogIntake
    \/ FeedbackClock
    \/ FeedbackRead
    \/ GetIntake
    \/ Today
    \/ Summary
    \/ RangeStart
    \/ RangeEnd
    \/ RangeMax
    \/ Tick
    \/ \E u \in Users, ml \in OtherAmounts : OtherSessionLog(u, ml)
    \/ Restart

Spec == Init /\ [][Next]_vars

\* ------------------------------------- the aggregation functions called directly
\* get_todays_total, and get_daily_summary with weekly_df, each called on its
\* own by a caller that makes one call at a time, while log operations and the
\* clock go on: to whatever has been logged so far, the empty table included.
Windows == {1, 2, WeeklyWindow, WeeklyWindow + 1}    \* positive window lengths

\* line 87 of a call get_todays_total(user_id): today_str = datetime.now()...
TotalClock(user_id) ==
    /\ pc = "idle"
    /\ run' = [RunBlank EXCEPT !.user_id = user_id, !.t_fb = now]
    /\ pc' = "total_read"
    /\ core' = CoreBlank
    /\ UNCHANGED <<zone, store, now, agent_cached, ui, log_actions, append_calls>>

\* lines 91-113 of that call: history = get_intake(user_id), returning or
\* raising, the filter by today_str, the sum, the return
TotalRead ==
    /\ pc = "total_read"
    /\ \E readOut \in Outcomes :
          core' = [CoreBlank EXCEPT
                     !.op = "daily_total", !.returned = TRUE,
                     !.read_failed = (readOut = "raise"),
                     !.day = run.t_fb.day, !.read_n = Len(store),
                     !.totalMl = get_todays_total(store, run.t_fb, run.user_id, readOut)]
    /\ pc' = "idle"
    /\ run' = RunBlank
    /\ UNCHANGED <<zone, store, now, agent_cached, ui, log_actions, append_calls>>

\* weekly_df of get_daily_summary(user_id, days), lines 207-209
QuerySummary(user_id, days) ==
    /\ pc = "idle"
    /\ \E sumOut \in Outcomes :
       \E s \in {get_daily_summary(store, now, user_id, days, sumOut)} :
          core' = [CoreBlank EXCEPT
                     !.op = "summary", !.arg = days, !.returned = ~s.raised,
                     !.read_failed = s.raised,
                     !.day = now.day, !.read_n = Len(store),
                     !.rows = weekly_df(s.rows)]
    /\ UNCHANGED <<zone, store, now, agent_cached, pc, run, ui, log_actions, append_calls>>

\* Log operations and the clock go on at any point, also inside a call.
NextCore ==
    \/ \E u \in Users, ml \in Amounts \cup OtherAmounts : OtherSessionLog(u, ml)
    \/ Tick
    \/ \E u \in Users : TotalClock(u)
    \/ TotalRead
    \/ \E u \in Users, days \in Windows : QuerySummary(u, days)

SpecCore == Init /\ [][NextCore]_vars

\* ------------------------------------------------------------------ claims
\* The table is append-only, so its first n rows are what a read saw when the
\* table held n rows.  The rows of a day among them, and their sum:
EventsOn(d, n) == {i \in 1..n : store[i].date = strftime(d)}

RECURSIVE SumOver(_)
SumOver(S) ==
    IF S = {} THEN 0
    ELSE LET i == CHOOSE x \in S : TRUE
         IN  store[i].intake_ml + SumOver(S \ {i})

\* C1: after any sequence of log operations, the total that get_todays_total
\* returns for today (the date it read at line 87) is the sum of intake_ml
\* over exactly the events of the table it read whose stored date is that
\* date; with no events it is 0, not an error.
C1_DailyTotal ==
    core.op = "daily_total" =>
        LET today == EventsOn(core.day, core.read_n)
        IN  /\ core.returned
            /\ core.totalMl = SumOver(today)
            /\ (today = {} => core.totalMl = 0)

\* C1 for the calls in which get_intake returns: there the total is the sum,
\* also when midnight or a log operation falls between line 87 and line 91.
C1_DailyTotalWhenRead ==
    (core.op = "daily_total" /\ ~core.read_failed) =>
        /\ core.returned
        /\ core.totalMl = SumOver(EventsOn(core.day, core.read_n))

\* get_todays_total returned the total of day 0 while the clock shows day 1.
C1_ReturnAfterMidnight ==
    /\ core.op = "daily_total" /\ ~core.read_failed
    /\ core.day = 0 /\ now.day = 1
    /\ core.totalMl = 1200

C2_WitnessOtherWindow ==
    /\ core.op = "summary" /\ core.arg = WeeklyWindow + 1
    /\ Len(core.rows) = WeeklyWindow + 1
    /\ core.rows[1].intake_count = 1
    /\ core.rows[WeeklyWindow + 1].intake_count = 1

\* C2 on the page: the 7-day frame of the overview tab, whatever the other
\* sessions and the clock did during the run.
C2_OnPage ==
    ui.main.weekly_shown =>
        /\ Len(ui.main.weekly_df) = WeeklyWindow
        /\ \A i \in 1..WeeklyWindow :
              LET d == ui.main.sum_day - WeeklyWindow + i
                  on == EventsOn(d, ui.main.sum_n)
                  row == ui.main.weekly_df[i]
              IN  /\ row.date = d
                  /\ row.total_intake = SumOver(on)
                  /\ row.intake_count = Cardinality(on)

\* C3: on every page that shows the metrics, for the non-negative total of
\* today and the goal of 2000 ml, remaining is max(0, goal - total) and the
\* fraction is min(1, total / goal); so remaining >= 0 and the fraction lies
\* in [0, 1], also above the goal.
C3_GoalProgress ==
    ui.main.totals_shown =>
        LET total == ui.main.today_total
            f == ui.main.progress
        IN  /\ daily_goal > 0
            /\ total >= 0
            /\ ui.main.remaining >= 0
            /\ (total <= daily_goal => ui.main.remaining + total = daily_goal)
            /\ (total >= daily_goal => ui.main.remaining = 0)
            /\ f.den > 0 /\ 0 <= f.num /\ f.num <= f.den
            /\ (total <= daily_goal => f.num * daily_goal = total * f.den)
            /\ (total >= daily_goal => f.num = f.den)

C3_Witness ==
    /\ ui.main.totals_shown
    /\ ui.main.today_total = 1200
    /\ ui.main.remaining = 800
    /\ ui.main.progress.num * 10 = ui.main.progress.den * 6

C3_WitnessAboveGoal ==
    /\ ui.main.totals_shown
    /\ ui.main.today_total = 2400
    /\ ui.main.remaining = 0
    /\ ui.main.progress.num = ui.main.progress.den

C3_WitnessAtGoal ==
    /\ ui.main.totals_shown
    /\ ui.main.today_total = daily_goal
    /\ ui.main.remaining = 0
    /\ ui.main.progress.num = ui.main.progress.den

\* C4: the pattern profile has all 7 day-of-week slots and all 24 hour
\* slots; a slot without events is present and NaN, a slot with events
\* carries the mean of its own events.
C4_AllSlotsPresent ==
    ui.main.patterns_shown =>
        LET seen == 1..ui.main.read_n
            onDay(k) == {i \in seen : day_name(to_datetime(store[i].date)) = k}
            atHour(h) == {i \in seen : store[i].timestamp.hour = h}
            slot(series, k, S) ==
                /\ k \in DOMAIN series
                /\ IF S = {} THEN series[k] = NaN
                   ELSE series[k] = [sum |-> SumOver(S), n |-> Cardinality(S)]
        IN  /\ \A k \in DayNameSet : slot(ui.main.weekly_pattern, k, onDay(k))
            /\ \A h \in 0..23 : slot(ui.main.hourly_pattern, h, atHour(h))

\* The day-of-week half of C4 alone, which the reindex of weekly_pattern gives.
C4_WeekdaySlotsPresent ==
    ui.main.patterns_shown =>
        /\ DOMAIN ui.main.weekly_pattern = DayNameSet
        /\ \A k \in DayNameSet :
              LET S == {i \in 1..ui.main.read_n :
                           day_name(to_datetime(store[i].date)) = k}
              IN  ui.main.weekly_pattern[k] =
                     IF S = {} THEN NaN
                     ELSE [sum |-> SumOver(S), n |-> Cardinality(S)]

\* C4 while the range widget holds one date: date_range[1] raises and the run
\* ends before any pattern profile is built.
C4_ProfileDespiteSelection ==
    (ui.main.range.shown /\ ~ui.main.read_failed) => ui.main.patterns_shown

\* C4 for a history younger than a week: the default range of the history
\* tab starts before the first stored date, the date input raises, and the
\* run ends before any pattern profile is built.
C4_ProfileBuilt ==
    (ui.main.totals_shown /\ ~ui.main.read_failed) => ui.main.patterns_shown

\* C6: in every run that finds events of the user in a readable store, the
\* totals are on the page, whatever happened to the feedback agent.
C6_TotalsDespiteFeedback ==
    (ui.ran /\ ui.n_start > 0 /\ ~ui.main.read_failed) => ui.main.totals_shown

\* The analyze half of C6 alone: a failing analyze_intake leaves the totals.
C6_TotalsDespiteAnalyze ==
    ("feedback" \in ui.sidebar.errors /\ ~ui.main.read_failed) => ui.main.totals_shown

\* C7: when reading the user's events fails, no consumer of today's total is
\* handed an ordinary total: the feedback agent is not called with one, and
\* the main content shows an error.
C7_StoreFailureSurfaced ==
    /\ ui.sidebar.fb.read_failed => ~ui.sidebar.fb.called
    /\ ui.main.read_failed => "load_error" \in ui.main.errors

\* C8: a log action issues at most one append and never retries it; a failed
\* append is reported; stored events never outnumber the log actions.
C8_SingleAppend ==
    /\ append_calls <= log_actions
    /\ Len(store) <= append_calls
    /\ Len(store) <= log_actions
    /\ (ui.sidebar.submitted /\ ui.sidebar.appended # "ok") =>
          /\ ui.sidebar.errors \in {{"log_failed"}, {"log_exception"}}
          /\ ui.sidebar.own_id = 0
          /\ ~ui.sidebar.success_shown

C8_Witness ==
    /\ ui.sidebar.submitted
    /\ ui.sidebar.appended = "false"
    /\ "log_failed" \in ui.sidebar.errors
    /\ log_actions = 2 /\ append_calls = 2 /\ Len(store) = 1

\* C9: every aggregation goes by the stored day of an event: today's rows are
\* exactly the events read that are stored under today's date, whatever the
\* date of their timestamp is, and the window's slot of a day D holds exactly
\* the events stored under D, whatever the time of the run is.
C9_StoredDayDecides ==
    ui.main.totals_shown =>
        LET m == ui.main
        IN  /\ \A i \in 1..m.read_n :
                  (store[i].id \in m.today_ids) <=> (store[i].date = strftime(m.day))
            /\ \A i \in (m.read_n + 1)..Len(store) : store[i].id \notin m.today_ids
            /\ m.today_total = SumOver(EventsOn(m.day, m.read_n))
            /\ m.weekly_shown =>
                  \A i \in 1..m.sum_n :
                     LET D == to_datetime(store[i].date)
                         k == WeeklyWindow - (m.sum_day - D)
                     IN  k \in 1..WeeklyWindow =>
                         /\ m.weekly_df[k].date = D
                         /\ m.weekly_df[k].intake_count = Cardinality(EventsOn(D, m.sum_n))
                         /\ m.weekly_df[k].total_intake = SumOver(EventsOn(D, m.sum_n))

\* An event logged on day 0 whose timestamp falls on day 1: on day 1 it is
\* out of today's total and in the window's slot of day 0.
C9_Witness ==
    /\ ui.main.totals_shown /\ ui.main.weekly_shown
    /\ ui.main.day = 1 /\ ui.main.sum_day = 1
    /\ \E i \in 1..ui.main.read_n :
          /\ store[i].date = strftime(0)
          /\ store[i].timestamp.date = strftime(1)
          /\ store[i].intake_ml > 0
          /\ store[i].id \notin ui.main.today_ids
    /\ ui.main.today_total = 0
    /\ ui.main.weekly_df[WeeklyWindow - 1].total_intake > 0

\* The same event on day 0: in today's total although its timestamp is of day 1.
C9_WitnessShiftedTimestamp ==
    /\ ui.main.totals_shown /\ ui.main.day = 0
    /\ \E i \in 1..ui.main.read_n :
          /\ store[i].date = strftime(0)
          /\ store[i].timestamp.date = strftime(1)
          /\ store[i].id \in ui.main.today_ids
    /\ ui.main.today_total = 1200

\* Another session's row lands after midnight between line 180 and
\* get_daily_summary: today's total is of day 0, the window ends at day 1.
C9_WitnessLandingBeforeSummary ==
    /\ ui.main.totals_shown /\ ui.main.weekly_shown
    /\ ui.main.day = 0 /\ ui.main.sum_day = 1
    /\ ui.main.today_total = 1200 /\ ui.main.today_ids = {1}
    /\ ui.main.weekly_df[WeeklyWindow - 1].total_intake = 1200
    /\ ui.main.weekly_df[WeeklyWindow].total_intake = 800

\* Another session's row lands after midnight between get_todays_total and
\* get_intake: the feedback has the own row, today's total the other one.
C9_WitnessLandingBeforeRead ==
    /\ ui.sidebar.fb.called /\ ui.sidebar.fb.total = 1200
    /\ ui.main.totals_shown /\ ui.main.day = 1
    /\ ui.main.today_total = 800 /\ ui.main.today_ids = {2}

\* Another session's row of day 0 lands between get_intake and line 180,
\* which reads day 1: get_intake did not see it, get_daily_summary does.
C9_WitnessLandingAfterRead ==
    /\ ui.main.totals_shown /\ ui.main.weekly_shown
    /\ ui.main.read_n = 1 /\ ui.main.sum_n = 2
    /\ ui.main.day = 1
    /\ store[2].date = strftime(0)

\* A failed own append, another session's row before get_intake, midnight
\* before get_daily_summary.
C9_WitnessFailedAppend ==
    /\ ui.sidebar.appended = "false" /\ ui.n_start = 0
    /\ ui.main.totals_shown /\ ui.main.day = 0 /\ ui.main.today_total = 800
    /\ ui.main.weekly_shown /\ ui.main.sum_day = 1
    /\ ui.main.weekly_df[WeeklyWindow].intake_count = 0

\* Midnight between the two clock reads of line 240: the default range ends
\* a day after the one it was counted back from.
C9_WitnessMidnightInRange ==
    /\ ui.main.range.shown
    /\ ui.main.range.key[1] = <<0 - DateRangeDays, 1>>

\* C10: feedback is requested only after a successful append, with a total
\* read after it: on the same day and with a successful read the total
\* covers the row just stored, together with whatever else the table held
\* for that day at the read; without success the agent is not called.
C10_FeedbackAfterAppend ==
    LET sb == ui.sidebar
    IN  /\ sb.fb.called => (sb.submitted /\ sb.appended = "ok" /\ sb.success_shown)
        /\ (sb.submitted /\ sb.appended # "ok") => (~sb.fb.called /\ ~sb.fb.shown)
        /\ (sb.fb.called /\ ~sb.fb.read_failed /\ sb.log_day = sb.read_day) =>
              /\ sb.own_id \in 1..sb.fb.read_n
              /\ store[sb.own_id].intake_ml = sb.intake_ml
              /\ sb.own_id \in EventsOn(sb.log_day, sb.fb.read_n)
              /\ sb.fb.total = SumOver(EventsOn(sb.log_day, sb.fb.read_n))

\* Another session's row lands after midnight between log_intake and
\* get_todays_total: the total read is that row's alone.
C10_WitnessAcrossMidnight ==
    /\ ui.sidebar.fb.called /\ ~ui.sidebar.fb.read_failed
    /\ ui.sidebar.intake_ml = 1200
    /\ ui.sidebar.log_day = 0 /\ ui.sidebar.read_day = 1
    /\ ui.sidebar.fb.total = 800

\* Another session's row lands between the clock read of line 87 (day 0) and
\* the table read of line 91, after midnight: the read has two rows, the
\* total of day 0 is the own row's.
C10_WitnessLandingInsideRead ==
    /\ ui.sidebar.fb.called /\ ~ui.sidebar.fb.read_failed
    /\ ui.sidebar.log_day = 0 /\ ui.sidebar.read_day = 0
    /\ ui.sidebar.fb.read_n = 2
    /\ store[2].date = strftime(1)
    /\ ui.sidebar.intake_ml = 1200 /\ ui.sidebar.fb.total = 1200

C10_Witness ==
    /\ ui.sidebar.fb.called /\ ~ui.sidebar.fb.read_failed
    /\ ui.sidebar.log_day = ui.sidebar.read_day
    /\ ui.sidebar.intake_ml = 1200
    /\ ui.sidebar.own_id = 1
    /\ ui.sidebar.fb.read_n = 2
    /\ ui.sidebar.fb.total = 2000

====
